---------------------------- MODULE Spec2Model ----------------------------
(***************************************************************************)
(* Model of bygis::Graph (src/Graph.hpp): a table                          *)
(*   data : vertex -> neighbor -> key -> (first: bool, second: float)      *)
(* with the two configuration fields directed and no_relationship.         *)
(*                                                                         *)
(* std::map is modelled as a TLA+ function whose DOMAIN is the set of keys *)
(* present, so that a present-but-empty inner map is a distinct value.     *)
(* std::map::operator[] inserts a value-initialised element when the key   *)
(* is missing; At1/At2/At3 model that insertion.                           *)
(*                                                                         *)
(* A float magnitude is modelled as an integer count of half-tolerance     *)
(* units (one unit = 0.00000005), so that the tolerance 0.0000001 of       *)
(* Graph::set is EPS = 2 units and there are values that differ from       *)
(* no_relationship by less than the tolerance.                             *)
(***************************************************************************)
EXTENDS Integers, FiniteSets, Sequences, TLC

\* ------------------------------------------------------------- bounds
\* Largest number of (vertex, neighbor, key) entries a set may leave in the
\* table of the main specification / of the query specification.
MaxEntries == 4
MaxEntriesQ == 2

\* Vertex ids, relation keys ("" is the default key of the unkeyed
\* overloads) and magnitudes the operations are called with.
Verts == {1, 2}
KeySeq == <<"", "w">>
Keys == {KeySeq[n] : n \in 1..Len(KeySeq)}
Values == {0, 1, 2, 3}
\* no_relationship values a Graph is constructed with.
NoRels == {0, 2}

\* The tolerance 0.0000001 of Graph::set, in units of 0.00000005.
EPS == 2

\* Graph::UNDIRECTED, Graph::FROM, Graph::TO
UNDIRECTED == 0
FROM == 1
TO == 2

VARIABLES data, directed, no_relationship, ret

vars == <<data, directed, no_relationship, ret>>

\* ------------------------------------------------------- std::map
EmptyMap == [x \in {} |-> x]

Erase(m, k) == [x \in (DOMAIN m) \ {k} |-> m[x]]

Put(m, k, v) == IF k \in DOMAIN m THEN [m EXCEPT ![k] = v] ELSE m @@ (k :> v)

\* std::pair<bool, float>
Pair(b, x) == [first |-> b, second |-> x]

\* std::pair<bool, float>(): what operator[] inserts at the innermost level
DefaultPair == Pair(FALSE, 0)

Abs(x) == IF x < 0 THEN -x ELSE x

Min(S) == CHOOSE x \in S : \A y \in S : x <= y

\* data[i]: inserts an empty vertex map when i is missing
At1(d, i) == IF i \in DOMAIN d THEN d ELSE Put(d, i, EmptyMap)

\* data[i][j]: inserts an empty neighbor map when j is missing
At2(d, i, j) ==
    LET d1 == At1(d, i)
    IN  IF j \in DOMAIN d1[i] THEN d1
        ELSE Put(d1, i, Put(d1[i], j, EmptyMap))

\* data[i][j][key]: inserts (false, 0) when key is missing
At3(d, i, j, key) ==
    LET d2 == At2(d, i, j)
    IN  IF key \in DOMAIN d2[i][j] THEN d2
        ELSE Put(d2, i, Put(d2[i], j, Put(d2[i][j], key, DefaultPair)))

\* data[i][j][key] = p
Assign3(d, i, j, key, p) ==
    LET d2 == At2(d, i, j)
    IN  Put(d2, i, Put(d2[i], j, Put(d2[i][j], key, p)))

\* data[i][j].erase(key)
Erase3(d, i, j, key) ==
    LET d2 == At2(d, i, j)
    IN  Put(d2, i, Put(d2[i], j, Erase(d2[i][j], key)))

\* data[i].erase(j)
Erase2(d, i, j) ==
    LET d1 == At1(d, i)
    IN  Put(d1, i, Erase(d1[i], j))

\* Whether an entry is stored at (i, j, key) (three successful finds).
Has(d, i, j, key) ==
    /\ i \in DOMAIN d
    /\ j \in DOMAIN d[i]
    /\ key \in DOMAIN d[i][j]

\* Number of entries stored in the table.
NumEntries(d) ==
    Cardinality({t \in Verts \X Verts \X Keys : Has(d, t[1], t[2], t[3])})

\* ------------------------------------------------------- queries
size(d) == Cardinality(DOMAIN d)

\* The lookup of line 178, data.find(j)->second.find(i)->second.find(k):
\* it dereferences end() when a level is missing.
MirrorFound(d, i, j, k) == Has(d, j, i, k)

\* Whether the private nbrs dereferences end() on its way: the lookup is
\* evaluated for an entry that passes the key filter when dir is TO and the
\* entry's flag is true.
nbrs_faults(d, i, dir, limit_key, key) ==
    /\ i \in DOMAIN d
    /\ dir = TO
    /\ \E j \in DOMAIN d[i] : \E k \in DOMAIN d[i][j] :
          /\ ~limit_key \/ k = key
          /\ d[i][j][k].first
          /\ ~MirrorFound(d, i, j, k)

\* Graph::nbrs (private), on the runs that dereference no end().
nbrs(d, i, dir, limit_key, key) ==
    IF i \notin DOMAIN d THEN {}
    ELSE {j \in DOMAIN d[i] :
            /\ ~(limit_key /\ key \notin DOMAIN d[i][j])
            /\ \E k \in DOMAIN d[i][j] :
                 /\ ~limit_key \/ k = key
                 /\ \/ dir = UNDIRECTED
                    \/ dir = FROM /\ d[i][j][k].first
                    \/ /\ dir = TO
                       /\ \/ ~d[i][j][k].first
                          \/ /\ MirrorFound(d, i, j, k)
                             /\ d[j][i][k].first}

nbrs_ik(d, i, key) == nbrs(d, i, UNDIRECTED, TRUE, key)
nbrs_i(d, i) == nbrs(d, i, UNDIRECTED, FALSE, "")
nbrs_to_ik(d, i, key) == nbrs(d, i, TO, TRUE, key)
nbrs_to_i(d, i) == nbrs(d, i, TO, FALSE, "")
nbrs_from_ik(d, i, key) == nbrs(d, i, FROM, TRUE, key)
nbrs_from_i(d, i) == nbrs(d, i, FROM, FALSE, "")

vertices(d) == DOMAIN d

keys_all(d) ==
    {k \in Keys : \E i \in DOMAIN d : \E j \in DOMAIN d[i] : k \in DOMAIN d[i][j]}

\* Graph::keys(int) when data.find(i) finds the vertex.  When it does not,
\* line 266 dereferences end(): see Keys_i.
keys_i(d, i) ==
    {k \in Keys : \E j \in DOMAIN d[i] : k \in DOMAIN d[i][j]}

keys_ij(d, i, j) ==
    IF i \notin DOMAIN d THEN {}
    ELSE IF j \notin DOMAIN d[i] THEN {}
    ELSE DOMAIN d[i][j]

contains_ijku(d, i, j, key, undir) ==
    IF i \notin DOMAIN d THEN FALSE
    ELSE IF j \notin DOMAIN d[i] THEN FALSE
    ELSE IF key \notin DOMAIN d[i][j] THEN FALSE
    ELSE undir \/ d[i][j][key].first

contains_dir_ijk(d, i, j, key) == contains_ijku(d, i, j, key, FALSE)
contains_undir_ijk(d, i, j, key) == contains_ijku(d, i, j, key, TRUE)
contains_ijk(d, dr, i, j, key) == contains_ijku(d, i, j, key, ~dr)

contains_dir_ij(d, i, j) ==
    IF i \notin DOMAIN d THEN FALSE
    ELSE IF j \notin DOMAIN d[i] THEN FALSE
    ELSE \E k \in DOMAIN d[i][j] : d[i][j][k].first

contains_undir_ij(d, i, j) ==
    IF i \notin DOMAIN d THEN FALSE
    ELSE j \in DOMAIN d[i] /\ Cardinality(DOMAIN d[i][j]) > 0

contains_ij(d, dr, i, j) ==
    IF dr THEN contains_dir_ij(d, i, j) ELSE contains_undir_ij(d, i, j)

contains_dir_i(d, i) ==
    IF i \notin DOMAIN d THEN FALSE
    ELSE \E j \in DOMAIN d[i] : \E k \in DOMAIN d[i][j] : d[i][j][k].first

contains_undir_i(d, i) ==
    i \in DOMAIN d /\ Cardinality(DOMAIN d[i]) > 0

contains_i(d, dr, i) ==
    IF dr THEN contains_dir_i(d, i) ELSE contains_undir_i(d, i)

\* get without the sign flip of line 481.
get_ijk_NoNegate(d, nr, i, j, key) ==
    IF ~Has(d, i, j, key) THEN nr ELSE d[i][j][key].second

get_ijk(d, nr, i, j, key) ==
    IF i \notin DOMAIN d THEN nr
    ELSE IF j \notin DOMAIN d[i] THEN nr
    ELSE IF key \notin DOMAIN d[i][j] THEN nr
    ELSE IF d[i][j][key].first = FALSE THEN -1 * d[i][j][key].second
    ELSE d[i][j][key].second

get_ij(d, nr, i, j) == get_ijk(d, nr, i, j, "")

\* ------------------------------------------------------- set
update(d, i, j, key, outward, x) == Assign3(d, i, j, key, Pair(outward, x))

\* The two statements "if ( data[i][j].size() == 0 ) data[i].erase(j);
\* if ( data[j][i].size() == 0 ) data[j].erase(i);"
prune_pair(d, i, j) ==
    LET a  == At2(d, i, j)
        a1 == IF Cardinality(DOMAIN a[i][j]) = 0 THEN Erase2(a, i, j) ELSE a
        b  == At2(a1, j, i)
    IN  IF Cardinality(DOMAIN b[j][i]) = 0 THEN Erase2(b, j, i) ELSE b

\* prune_ends without the statement of line 618.
prune_ends_NoEraseJ(d, i, j) ==
    LET a == At1(d, i)
    IN  IF Cardinality(DOMAIN a[i]) = 0 THEN Erase(a, i) ELSE a

\* The two statements "if ( data[i].size() == 0 ) data.erase(i);
\* if ( data[j].size() == 0 ) data.erase(j);"
prune_ends(d, i, j) ==
    LET a  == At1(d, i)
        a1 == IF Cardinality(DOMAIN a[i]) = 0 THEN Erase(a, i) ELSE a
        b  == At1(a1, j)
    IN  IF Cardinality(DOMAIN b[j]) = 0 THEN Erase(b, j) ELSE b

\* clear_entry whose demotion leaves out the assignment of line 612.
clear_entry_KeepMagnitude(d, i, j, key, undir) ==
    IF undir THEN Erase3(Erase3(d, i, j, key), j, i, key)
    ELSE LET a == At3(d, i, j, key)
         IN  IF ~a[i][j][key].first THEN a
             ELSE LET b == At3(a, j, i, key)
                  IN  IF ~b[j][i][key].first
                      THEN Erase3(Erase3(b, j, i, key), i, j, key)
                      ELSE Assign3(b, i, j, key, Pair(FALSE, b[i][j][key].second))

\* clear_entry whose undirected branch leaves out the erase of line 602.
clear_entry_UndirOneSide(d, i, j, key, undir) ==
    IF undir THEN Erase3(d, i, j, key)
    ELSE LET a == At3(d, i, j, key)
         IN  IF ~a[i][j][key].first THEN a
             ELSE LET b == At3(a, j, i, key)
                  IN  IF ~b[j][i][key].first
                      THEN Erase3(Erase3(b, j, i, key), i, j, key)
                      ELSE LET c == Assign3(b, i, j, key,
                                            Pair(FALSE, b[i][j][key].second))
                           IN  Assign3(c, i, j, key,
                                       Pair(FALSE, c[j][i][key].second))

\* clear_entry whose directed branch leaves out the test of line 606 and
\* demotes every outward entry.
clear_entry_AlwaysDemote(d, i, j, key, undir) ==
    IF undir THEN Erase3(Erase3(d, i, j, key), j, i, key)
    ELSE LET a == At3(d, i, j, key)
         IN  IF ~a[i][j][key].first THEN a
             ELSE LET b == At3(a, j, i, key)
                      c == Assign3(b, i, j, key, Pair(FALSE, b[i][j][key].second))
                  IN  Assign3(c, i, j, key, Pair(FALSE, c[j][i][key].second))

\* clear_entry whose undirected branch erases the neighbor maps of the pair
\* instead of the key (lines 601-602).
clear_entry_WholePair(d, i, j, key, undir) ==
    IF undir THEN Erase2(Erase2(d, i, j), j, i)
    ELSE LET a == At3(d, i, j, key)
         IN  IF ~a[i][j][key].first THEN a
             ELSE LET b == At3(a, j, i, key)
                  IN  IF ~b[j][i][key].first
                      THEN Erase3(Erase3(b, j, i, key), i, j, key)
                      ELSE LET c == Assign3(b, i, j, key,
                                            Pair(FALSE, b[i][j][key].second))
                           IN  Assign3(c, i, j, key,
                                       Pair(FALSE, c[j][i][key].second))

\* The branches of Graph::clear(int,int,const std::string&,bool) between its
\* guard and its pruning.
clear_entry(d, i, j, key, undir) ==
    IF undir THEN Erase3(Erase3(d, i, j, key), j, i, key)
    ELSE LET a == At3(d, i, j, key)
         IN  IF ~a[i][j][key].first THEN a
             ELSE LET b == At3(a, j, i, key)
                  IN  IF ~b[j][i][key].first
                      THEN Erase3(Erase3(b, j, i, key), i, j, key)
                      ELSE LET c == Assign3(b, i, j, key,
                                            Pair(FALSE, b[i][j][key].second))
                           IN  Assign3(c, i, j, key,
                                       Pair(FALSE, c[j][i][key].second))

clear_ijku(d, i, j, key, undir) ==
    IF ~contains_undir_ijk(d, i, j, key) THEN d
    ELSE prune_ends(prune_pair(clear_entry(d, i, j, key, undir), i, j), i, j)

clear_dir_ijk(d, i, j, key) == clear_ijku(d, i, j, key, FALSE)
clear_undir_ijk(d, i, j, key) == clear_ijku(d, i, j, key, TRUE)
clear_ijk(d, dr, i, j, key) == clear_ijku(d, i, j, key, ~dr)

\* Whether x is taken for the no-relationship value (line 511).
is_no_relationship(nr, x) == Abs(x - nr) < EPS

\* set whose directed branch leaves out the mirror of lines 520-521.
set_ijkux_NoMirror(d, dr, nr, i, j, key, undir, x) ==
    IF is_no_relationship(nr, x)
    THEN IF undir THEN clear_undir_ijk(d, i, j, key)
         ELSE clear_dir_ijk(d, i, j, key)
    ELSE LET a == update(d, i, j, key, TRUE, x)
         IN  IF undir THEN update(a, j, i, key, TRUE, x) ELSE a

\* set whose undirected branch writes the mirror of line 519 as mirror-only.
set_ijkux_UndirMirrorOnly(d, dr, nr, i, j, key, undir, x) ==
    IF is_no_relationship(nr, x)
    THEN IF undir THEN clear_undir_ijk(d, i, j, key)
         ELSE clear_dir_ijk(d, i, j, key)
    ELSE LET a == update(d, i, j, key, TRUE, x)
         IN  IF undir THEN update(a, j, i, key, FALSE, x)
             ELSE IF ~contains_ijk(a, dr, j, i, key)
                     \/ ~At3(a, j, i, key)[j][i][key].first
                  THEN update(a, j, i, key, FALSE, x)
                  ELSE a

\* set whose directed branch writes the mirror without the test of line 520.
set_ijkux_AlwaysMirror(d, dr, nr, i, j, key, undir, x) ==
    IF is_no_relationship(nr, x)
    THEN IF undir THEN clear_undir_ijk(d, i, j, key)
         ELSE clear_dir_ijk(d, i, j, key)
    ELSE LET a == update(d, i, j, key, TRUE, x)
         IN  IF undir THEN update(a, j, i, key, TRUE, x)
             ELSE update(a, j, i, key, FALSE, x)

set_ijkux(d, dr, nr, i, j, key, undir, x) ==
    IF is_no_relationship(nr, x)
    THEN IF undir THEN clear_undir_ijk(d, i, j, key)
         ELSE clear_dir_ijk(d, i, j, key)
    ELSE LET a == update(d, i, j, key, TRUE, x)
         IN  IF undir THEN update(a, j, i, key, TRUE, x)
             ELSE IF ~contains_ijk(a, dr, j, i, key)
                     \/ ~At3(a, j, i, key)[j][i][key].first
                  THEN update(a, j, i, key, FALSE, x)
                  ELSE a

set_ijkx(d, dr, nr, i, j, key, x) == set_ijkux(d, dr, nr, i, j, key, ~dr, x)
set_dir_ijkx(d, dr, nr, i, j, key, x) == set_ijkux(d, dr, nr, i, j, key, FALSE, x)
set_undir_ijkx(d, dr, nr, i, j, key, x) == set_ijkux(d, dr, nr, i, j, key, TRUE, x)
set_ijx(d, dr, nr, i, j, x) == set_ijkux(d, dr, nr, i, j, "", ~dr, x)
set_dir_ijx(d, dr, nr, i, j, x) == set_ijkux(d, dr, nr, i, j, "", FALSE, x)
set_undir_ijx(d, dr, nr, i, j, x) == set_ijkux(d, dr, nr, i, j, "", TRUE, x)

\* ------------------------------------------------------- clear
\* One pass of the loop that also removes a mirror-only entry (lines 560-561).
clear_dir_ij_step_EraseMirrorOnly(d, i, j, k) ==
    IF ~d[i][j][k].first THEN Erase3(d, i, j, k)
    ELSE LET b == At3(d, j, i, k)
         IN  IF ~b[j][i][k].first
             THEN Erase3(Erase3(b, j, i, k), i, j, k)
             ELSE LET c == Assign3(b, i, j, k, Pair(FALSE, b[i][j][k].second))
                  IN  Assign3(c, i, j, k, Pair(FALSE, c[j][i][k].second))

\* One pass of the loop whose demotion leaves out the assignment of line 568.
clear_dir_ij_step_KeepMagnitude(d, i, j, k) ==
    IF ~d[i][j][k].first THEN d
    ELSE LET b == At3(d, j, i, k)
         IN  IF ~b[j][i][k].first
             THEN Erase3(Erase3(b, j, i, k), i, j, k)
             ELSE Assign3(b, i, j, k, Pair(FALSE, b[i][j][k].second))

\* One pass of the loop of Graph::clear_dir(int,int) at key k.
clear_dir_ij_step(d, i, j, k) ==
    IF ~d[i][j][k].first THEN d
    ELSE LET b == At3(d, j, i, k)
         IN  IF ~b[j][i][k].first
             THEN Erase3(Erase3(b, j, i, k), i, j, k)
             ELSE LET c == Assign3(b, i, j, k, Pair(FALSE, b[i][j][k].second))
                  IN  Assign3(c, i, j, k, Pair(FALSE, c[j][i][k].second))

\* The loop of Graph::clear_dir(int,int) from the n-th key on, in the order
\* of std::map<std::string, ...>.
RECURSIVE clear_dir_ij_loop(_, _, _, _)
clear_dir_ij_loop(d, i, j, n) ==
    IF n > Len(KeySeq) THEN d
    ELSE IF KeySeq[n] \in DOMAIN d[i][j]
         THEN clear_dir_ij_loop(clear_dir_ij_step(d, i, j, KeySeq[n]), i, j, n + 1)
         ELSE clear_dir_ij_loop(d, i, j, n + 1)

clear_dir_ij(d, dr, i, j) ==
    IF ~contains_ij(d, dr, i, j) THEN d
    ELSE prune_ends(prune_pair(clear_dir_ij_loop(At2(d, i, j), i, j, 1), i, j), i, j)

\* clear_undir without the pruning of lines 585-586.
clear_undir_ij_NoPrune(d, i, j) ==
    IF ~contains_undir_ij(d, i, j) THEN d
    ELSE Erase2(Erase2(d, i, j), j, i)

clear_undir_ij(d, i, j) ==
    IF ~contains_undir_ij(d, i, j) THEN d
    ELSE prune_ends(Erase2(Erase2(d, i, j), j, i), i, j)

clear_ij(d, dr, i, j) ==
    IF dr THEN clear_dir_ij(d, dr, i, j) ELSE clear_undir_ij(d, i, j)

\* for ( ; it != N.end(); ++it ) clear_dir(i, *it, key);
RECURSIVE clear_dir_ik_loop(_, _, _, _)
clear_dir_ik_loop(d, i, N, key) ==
    IF N = {} THEN d
    ELSE clear_dir_ik_loop(clear_dir_ijk(d, i, Min(N), key), i, N \ {Min(N)}, key)

clear_dir_ik(d, i, key) == clear_dir_ik_loop(d, i, nbrs_i(d, i), key)

\* for ( ; it != N.end(); ++it ) clear_undir(i, *it, key);
RECURSIVE clear_undir_ik_loop(_, _, _, _)
clear_undir_ik_loop(d, i, N, key) ==
    IF N = {} THEN d
    ELSE clear_undir_ik_loop(clear_undir_ijk(d, i, Min(N), key), i, N \ {Min(N)}, key)

clear_undir_ik(d, i, key) ==
    clear_undir_ik_loop(d, i, nbrs(d, i, UNDIRECTED, TRUE, key), key)

clear_ik(d, dr, i, key) ==
    IF dr THEN clear_dir_ik(d, i, key) ELSE clear_undir_ik(d, i, key)

\* The loop of Graph::clear(int) over the neighbors N of the erased vertex.
RECURSIVE clear_i_loop(_, _, _)
clear_i_loop(d, i, N) ==
    IF N = {} THEN d
    ELSE LET n == Min(N)
         IN  IF n \notin DOMAIN d THEN clear_i_loop(d, i, N \ {n})
             ELSE LET a == Erase2(d, n, i)
                      b == IF Cardinality(DOMAIN a[n]) = 0 THEN Erase(a, n) ELSE a
                  IN  clear_i_loop(b, i, N \ {n})

\* clear(int) without the loop of lines 664-669.
clear_i_NoBackErase(d, i) ==
    IF ~contains_undir_i(d, i) THEN d ELSE Erase(d, i)

clear_i(d, i) ==
    IF ~contains_undir_i(d, i) THEN d
    ELSE clear_i_loop(Erase(d, i), i, nbrs(d, i, UNDIRECTED, FALSE, ""))

\* Graph::clear(const std::string&): each neighbor map loses key, a neighbor
\* map left empty is erased, a vertex map left empty is erased.
clear_k_nbr(N, key) == Erase(N, key)

clear_k_vertex(V, key) ==
    LET W == [j \in DOMAIN V |-> clear_k_nbr(V[j], key)]
    IN  [j \in {n \in DOMAIN W : Cardinality(DOMAIN W[n]) # 0} |-> W[j]]

\* clear(key) without the vertex pruning of line 702.
clear_k_KeepVertex(d, key) == [i \in DOMAIN d |-> clear_k_vertex(d[i], key)]

clear_k(d, key) ==
    LET e == [i \in DOMAIN d |-> clear_k_vertex(d[i], key)]
    IN  [i \in {v \in DOMAIN e : Cardinality(DOMAIN e[v]) # 0} |-> e[i]]

clear_all(d) == EmptyMap

\* ------------------------------------------------------- state machine
\* ret is what the last call returned and the caller has not taken yet:
\* the query, its arguments and its outcome; NoRet when there is none (the
\* mutations return void).  An outcome is a value, or a fault.
NoRet == [op |-> "void", args |-> <<>>, val |-> [fault |-> FALSE, value |-> 0]]

Returned(v) == [fault |-> FALSE, value |-> v]

Fault == [fault |-> TRUE, value |-> 0]

\* Graph::Graph(bool dir, float x) on an empty table.
Init ==
    /\ data = EmptyMap
    /\ directed \in BOOLEAN
    /\ no_relationship \in NoRels
    /\ ret = NoRet

\* A mutation is called once the caller has taken the previous call's
\* result, and leaves table d; cap bounds the number of entries.
Mutate(cap, d) ==
    /\ ret.op = "void"
    /\ NumEntries(d) <= cap
    /\ data' = d
    /\ ret' = NoRet
    /\ UNCHANGED <<directed, no_relationship>>

Set_ijkux(cap, i, j, key, undir, x) ==
    Mutate(cap, set_ijkux(data, directed, no_relationship, i, j, key, undir, x))
Set_ijkx(cap, i, j, key, x) ==
    Mutate(cap, set_ijkx(data, directed, no_relationship, i, j, key, x))
SetDir_ijkx(cap, i, j, key, x) ==
    Mutate(cap, set_dir_ijkx(data, directed, no_relationship, i, j, key, x))
SetUndir_ijkx(cap, i, j, key, x) ==
    Mutate(cap, set_undir_ijkx(data, directed, no_relationship, i, j, key, x))
Set_ijx(cap, i, j, x) ==
    Mutate(cap, set_ijx(data, directed, no_relationship, i, j, x))
SetDir_ijx(cap, i, j, x) ==
    Mutate(cap, set_dir_ijx(data, directed, no_relationship, i, j, x))
SetUndir_ijx(cap, i, j, x) ==
    Mutate(cap, set_undir_ijx(data, directed, no_relationship, i, j, x))
ClearDir_ij(cap, i, j) == Mutate(cap, clear_dir_ij(data, directed, i, j))
ClearUndir_ij(cap, i, j) == Mutate(cap, clear_undir_ij(data, i, j))
Clear_ij(cap, i, j) == Mutate(cap, clear_ij(data, directed, i, j))
Clear_ijku(cap, i, j, key, undir) == Mutate(cap, clear_ijku(data, i, j, key, undir))
ClearDir_ijk(cap, i, j, key) == Mutate(cap, clear_dir_ijk(data, i, j, key))
ClearUndir_ijk(cap, i, j, key) == Mutate(cap, clear_undir_ijk(data, i, j, key))
Clear_ijk(cap, i, j, key) == Mutate(cap, clear_ijk(data, directed, i, j, key))
ClearDir_ik(cap, i, key) == Mutate(cap, clear_dir_ik(data, i, key))
ClearUndir_ik(cap, i, key) == Mutate(cap, clear_undir_ik(data, i, key))
Clear_ik(cap, i, key) == Mutate(cap, clear_ik(data, directed, i, key))
Clear_i(cap, i) == Mutate(cap, clear_i(data, i))
Clear_k(cap, key) == Mutate(cap, clear_k(data, key))
Clear_all(cap) == Mutate(cap, clear_all(data))

Mutations(cap) ==
    \/ \E i \in Verts, j \in Verts, key \in Keys, undir \in BOOLEAN, x \in Values :
         Set_ijkux(cap, i, j, key, undir, x)
    \/ \E i \in Verts, j \in Verts, key \in Keys, x \in Values :
         Set_ijkx(cap, i, j, key, x)
    \/ \E i \in Verts, j \in Verts, key \in Keys, x \in Values :
         SetDir_ijkx(cap, i, j, key, x)
    \/ \E i \in Verts, j \in Verts, key \in Keys, x \in Values :
         SetUndir_ijkx(cap, i, j, key, x)
    \/ \E i \in Verts, j \in Verts, x \in Values : Set_ijx(cap, i, j, x)
    \/ \E i \in Verts, j \in Verts, x \in Values : SetDir_ijx(cap, i, j, x)
    \/ \E i \in Verts, j \in Verts, x \in Values : SetUndir_ijx(cap, i, j, x)
    \/ \E i \in Verts, j \in Verts : ClearDir_ij(cap, i, j)
    \/ \E i \in Verts, j \in Verts : ClearUndir_ij(cap, i, j)
    \/ \E i \in Verts, j \in Verts : Clear_ij(cap, i, j)
    \/ \E i \in Verts, j \in Verts, key \in Keys, undir \in BOOLEAN :
         Clear_ijku(cap, i, j, key, undir)
    \/ \E i \in Verts, j \in Verts, key \in Keys : ClearDir_ijk(cap, i, j, key)
    \/ \E i \in Verts, j \in Verts, key \in Keys : ClearUndir_ijk(cap, i, j, key)
    \/ \E i \in Verts, j \in Verts, key \in Keys : Clear_ijk(cap, i, j, key)
    \/ \E i \in Verts, key \in Keys : ClearDir_ik(cap, i, key)
    \/ \E i \in Verts, key \in Keys : ClearUndir_ik(cap, i, key)
    \/ \E i \in Verts, key \in Keys : Clear_ik(cap, i, key)
    \/ \E i \in Verts : Clear_i(cap, i)
    \/ \E key \in Keys : Clear_k(cap, key)
    \/ Clear_all(cap)

Next == Mutations(MaxEntries)

Spec == Init /\ [][Next]_vars

\* ------------------------------------------------------- query calls
Query(op, args, val) ==
    /\ ret.op = "void"
    /\ ret' = [op |-> op, args |-> args, val |-> val]
    /\ UNCHANGED <<data, directed, no_relationship>>

\* The private nbrs dereferences end() when the entry it looks up is
\* missing: the call faults or returns some set of vertices.
NbrsOutcomes(d, i, dir, limit_key, key) ==
    IF nbrs_faults(d, i, dir, limit_key, key)
    THEN {Fault} \cup {Returned(S) : S \in SUBSET Verts}
    ELSE {Returned(nbrs(d, i, dir, limit_key, key))}

\* Graph::keys(int) binds V to it->second with no test of it against
\* data.end(): on a missing vertex the call faults or returns some set of keys.
KeysOutcomes(d, i) ==
    IF i \notin DOMAIN d
    THEN {Fault} \cup {Returned(S) : S \in SUBSET Keys}
    ELSE {Returned(keys_i(d, i))}

Size == Query("size", <<>>, Returned(size(data)))
Nbrs_ik(i, key) ==
    \E o \in NbrsOutcomes(data, i, UNDIRECTED, TRUE, key) : Query("nbrs", <<i, key>>, o)
Nbrs_i(i) ==
    \E o \in NbrsOutcomes(data, i, UNDIRECTED, FALSE, "") : Query("nbrs", <<i>>, o)
NbrsTo_ik(i, key) ==
    \E o \in NbrsOutcomes(data, i, TO, TRUE, key) : Query("nbrs_to", <<i, key>>, o)
NbrsTo_i(i) ==
    \E o \in NbrsOutcomes(data, i, TO, FALSE, "") : Query("nbrs_to", <<i>>, o)
NbrsFrom_ik(i, key) ==
    \E o \in NbrsOutcomes(data, i, FROM, TRUE, key) : Query("nbrs_from", <<i, key>>, o)
NbrsFrom_i(i) ==
    \E o \in NbrsOutcomes(data, i, FROM, FALSE, "") : Query("nbrs_from", <<i>>, o)
Vertices == Query("vertices", <<>>, Returned(vertices(data)))
Keys_all == Query("keys", <<>>, Returned(keys_all(data)))
Keys_i(i) == \E o \in KeysOutcomes(data, i) : Query("keys", <<i>>, o)
Keys_ij(i, j) == Query("keys", <<i, j>>, Returned(keys_ij(data, i, j)))
Contains_ijku(i, j, key, undir) ==
    Query("contains", <<i, j, key, undir>>,
          Returned(contains_ijku(data, i, j, key, undir)))
ContainsDir_ijk(i, j, key) ==
    Query("contains_dir", <<i, j, key>>, Returned(contains_dir_ijk(data, i, j, key)))
ContainsUndir_ijk(i, j, key) ==
    Query("contains_undir", <<i, j, key>>, Returned(contains_undir_ijk(data, i, j, key)))
Contains_ijk(i, j, key) ==
    Query("contains", <<i, j, key>>, Returned(contains_ijk(data, directed, i, j, key)))
ContainsDir_ij(i, j) ==
    Query("contains_dir", <<i, j>>, Returned(contains_dir_ij(data, i, j)))
ContainsUndir_ij(i, j) ==
    Query("contains_undir", <<i, j>>, Returned(contains_undir_ij(data, i, j)))
Contains_ij(i, j) ==
    Query("contains", <<i, j>>, Returned(contains_ij(data, directed, i, j)))
ContainsDir_i(i) == Query("contains_dir", <<i>>, Returned(contains_dir_i(data, i)))
ContainsUndir_i(i) == Query("contains_undir", <<i>>, Returned(contains_undir_i(data, i)))
Contains_i(i) == Query("contains", <<i>>, Returned(contains_i(data, directed, i)))
Get_ijk(i, j, key) ==
    Query("get", <<i, j, key>>, Returned(get_ijk(data, no_relationship, i, j, key)))
Get_ij(i, j) ==
    Query("get", <<i, j>>, Returned(get_ij(data, no_relationship, i, j)))

\* The caller takes the result.
Return ==
    /\ ret.op # "void"
    /\ ret' = NoRet
    /\ UNCHANGED <<data, directed, no_relationship>>

Queries ==
    \/ Size
    \/ \E i \in Verts, key \in Keys : Nbrs_ik(i, key)
    \/ \E i \in Verts : Nbrs_i(i)
    \/ \E i \in Verts, key \in Keys : NbrsTo_ik(i, key)
    \/ \E i \in Verts : NbrsTo_i(i)
    \/ \E i \in Verts, key \in Keys : NbrsFrom_ik(i, key)
    \/ \E i \in Verts : NbrsFrom_i(i)
    \/ Vertices
    \/ Keys_all
    \/ \E i \in Verts : Keys_i(i)
    \/ \E i \in Verts, j \in Verts : Keys_ij(i, j)
    \/ \E i \in Verts, j \in Verts, key \in Keys, undir \in BOOLEAN :
         Contains_ijku(i, j, key, undir)
    \/ \E i \in Verts, j \in Verts, key \in Keys : ContainsDir_ijk(i, j, key)
    \/ \E i \in Verts, j \in Verts, key \in Keys : ContainsUndir_ijk(i, j, key)
    \/ \E i \in Verts, j \in Verts, key \in Keys : Contains_ijk(i, j, key)
    \/ \E i \in Verts, j \in Verts : ContainsDir_ij(i, j)
    \/ \E i \in Verts, j \in Verts : ContainsUndir_ij(i, j)
    \/ \E i \in Verts, j \in Verts : Contains_ij(i, j)
    \/ \E i \in Verts : ContainsDir_i(i)
    \/ \E i \in Verts : ContainsUndir_i(i)
    \/ \E i \in Verts : Contains_i(i)
    \/ \E i \in Verts, j \in Verts, key \in Keys : Get_ijk(i, j, key)
    \/ \E i \in Verts, j \in Verts : Get_ij(i, j)

\* Mutations and queries, each query's result taken before the next call.
NextQ == Mutations(MaxEntriesQ) \/ Queries \/ Return

SpecQ == Init /\ [][NextQ]_vars

\* ------------------------------------------------------- copies
\* The object whose members the variables hold.
This == [data |-> data, directed |-> directed, no_relationship |-> no_relationship]

\* Graph::Graph(bool dir, float x).
Graph(dir, x) == [data |-> EmptyMap, directed |-> dir, no_relationship |-> x]

\* The values an uninitialized float member may be read as.
Indeterminate == Values

\* Graph::Graph(const Graph& g): directed and data are copied and
\* no_relationship is left uninitialized, so a read of it gives any value.
CopyOutcomes(g) ==
    {[data |-> g.data, directed |-> g.directed, no_relationship |-> x] :
        x \in Indeterminate}

\* Graph::operator=(const Graph& g) on an object b other than g.
assign(b, g) == [b EXCEPT !.directed = g.directed, !.data = g.data]

\* Graph b(*this);
CopyConstruct ==
    \E b \in CopyOutcomes(This) : Query("Graph", <<>>, Returned(b))

\* Graph b(dir, x); b = *this;
Assign(dir, x) ==
    Query("operator=", <<dir, x>>, Returned(assign(Graph(dir, x), This)))

\* *this = *this; returns at the test of line 124.
SelfAssign == Query("operator= this", <<>>, Returned(This))

NextC ==
    \/ Mutations(MaxEntriesQ)
    \/ CopyConstruct
    \/ \E dir \in BOOLEAN, x \in NoRels : Assign(dir, x)
    \/ SelfAssign
    \/ Return

SpecC == Init /\ [][NextC]_vars

\* ------------------------------------------------------- claims
\* The entry stored at (i, j, key) is outward / is mirror-only.
Outward(d, i, j, key) == Has(d, i, j, key) /\ d[i][j][key].first
MirrorOnly(d, i, j, key) == Has(d, i, j, key) /\ ~d[i][j][key].first

\* C1: after any sequence of set and clear calls the table holds no empty
\* container: every vertex present has a neighbor map and every neighbor
\* map present has a key entry.
C1_NoEmptyContainer ==
    \A i \in DOMAIN data :
        /\ DOMAIN data[i] # {}
        /\ \A j \in DOMAIN data[i] : DOMAIN data[i][j] # {}

\* C1 witness: a table left by a directed clear (only a directed clear of a
\* self relationship leaves a mirror-only entry at (i, i, key)) that has
\* pruned the other vertex away.
C1_Witness ==
    \E i \in Verts, key \in Keys :
        /\ MirrorOnly(data, i, i, key)
        /\ DOMAIN data = {i}
        /\ DOMAIN data[i] = {i}

\* C2: every outward entry at (i, j, key) has an entry at (j, i, key), so
\* the lookup of nbrs with direction TO never addresses a missing vertex,
\* neighbor or key.
C2_MirrorExists ==
    /\ \A i \in Verts, j \in Verts, key \in Keys :
           Outward(data, i, j, key) => Has(data, j, i, key)
    /\ \A i \in Verts, key \in Keys, limit_key \in BOOLEAN :
           ~nbrs_faults(data, i, TO, limit_key, key)

\* C2 witness: a one-way relationship from i to j, for which nbrs_to(i)
\* performs the lookup at (j, i, key) and nbrs_to(j) reports i.
C2_Witness ==
    \E i \in Verts, j \in Verts, key \in Keys :
        /\ i # j
        /\ Outward(data, i, j, key)
        /\ MirrorOnly(data, j, i, key)
        /\ nbrs_to_ik(data, j, key) = {i}
        /\ nbrs_to_ik(data, i, key) = {}

\* What C3 says of set_dir(i, j, key, v).
C3_Post(i, j, key, v) ==
    LET d == set_dir_ijkx(data, directed, no_relationship, i, j, key, v)
    IN  /\ get_ijk(d, no_relationship, i, j, key) = v
        /\ get_ijk(d, no_relationship, j, i, key) = -v

\* C3 as stated: for any i and j (not assumed distinct) and any v that
\* differs from no_relationship, with no entry at (j, i, key) before,
\* set_dir(i, j, key, v) makes get(i, j, key) = v and get(j, i, key) = -v.
C3_AsStated ==
    \A i \in Verts, j \in Verts, key \in Keys, v \in Values :
        (v # no_relationship /\ ~Has(data, j, i, key)) => C3_Post(i, j, key, v)

\* C3 amended: the same for i # j and v at least the tolerance away from
\* no_relationship.
C3_SetDirAsymmetry ==
    \A i \in Verts, j \in Verts, key \in Keys, v \in Values :
        (i # j /\ ~is_no_relationship(no_relationship, v) /\ ~Has(data, j, i, key))
            => C3_Post(i, j, key, v)

\* C3 witness: a non-empty table with no entry at (j, i, key) on which
\* set_dir(i, j, key, v) stores a relationship read back as v and -v.
C3_Witness ==
    \E i \in Verts, j \in Verts, key \in Keys, v \in Values :
        /\ i # j
        /\ ~is_no_relationship(no_relationship, v)
        /\ v # 0
        /\ ~Has(data, j, i, key)
        /\ \E k \in Keys : Outward(data, j, i, k)
        /\ C3_Post(i, j, key, v)

\* What C4 says of set_undir(i, j, key, v).
C4_Post(i, j, key, v) ==
    LET d == set_undir_ijkx(data, directed, no_relationship, i, j, key, v)
    IN  /\ get_ijk(d, no_relationship, i, j, key) = v
        /\ get_ijk(d, no_relationship, j, i, key) = v

\* C4 as stated: whatever entries exist at (i, j, key) and (j, i, key), for
\* any v that differs from no_relationship, after set_undir(i, j, key, v)
\* get(i, j, key) and get(j, i, key) both return v.
C4_AsStated ==
    \A i \in Verts, j \in Verts, key \in Keys, v \in Values :
        v # no_relationship => C4_Post(i, j, key, v)

\* C4 amended: the same for any v at least the tolerance away from
\* no_relationship.
C4_SetUndirRoundTrip ==
    \A i \in Verts, j \in Verts, key \in Keys, v \in Values :
        ~is_no_relationship(no_relationship, v) => C4_Post(i, j, key, v)

\* C4 witness: set_undir(i, j, key, v) over a one-way directed relationship
\* from i to j whose magnitude differs from v.
C4_Witness ==
    \E i \in Verts, j \in Verts, key \in Keys, v \in Values :
        /\ i # j
        /\ ~is_no_relationship(no_relationship, v)
        /\ Outward(data, i, j, key)
        /\ MirrorOnly(data, j, i, key)
        /\ data[i][j][key].second # v
        /\ C4_Post(i, j, key, v)

\* C5: where i # j and both (i, j, key) and (j, i, key) are outward with
\* get(j, i, key) = w, clear_dir(i, j, key) leaves get(j, i, key) = w and
\* makes get(i, j, key) = -w; the (i, j, key) entry becomes mirror-only and
\* neither entry is removed.
C5_DemotionOnDirectedClear ==
    \A i \in Verts, j \in Verts, key \in Keys :
        (i # j /\ Outward(data, i, j, key) /\ Outward(data, j, i, key)) =>
            LET w == get_ijk(data, no_relationship, j, i, key)
                d == clear_dir_ijk(data, i, j, key)
            IN  /\ get_ijk(d, no_relationship, j, i, key) = w
                /\ get_ijk(d, no_relationship, i, j, key) = -w
                /\ MirrorOnly(d, i, j, key)
                /\ Outward(d, j, i, key)

\* C5 witness: a two-way directed pair whose two magnitudes differ.
C5_Witness ==
    \E i \in Verts, j \in Verts, key \in Keys :
        /\ i # j
        /\ Outward(data, i, j, key)
        /\ Outward(data, j, i, key)
        /\ data[i][j][key].second # data[j][i][key].second
        /\ MirrorOnly(clear_dir_ijk(data, i, j, key), i, j, key)

\* C6: after set_undir(i, j, key, no_relationship) no entry exists at
\* (i, j, key) or (j, i, key): the contains family is false in both orders
\* and get returns no_relationship in both orders.
C6_SentinelDeletes ==
    \A i \in Verts, j \in Verts, key \in Keys :
        LET d == set_undir_ijkx(data, directed, no_relationship, i, j, key,
                                no_relationship)
        IN  /\ ~Has(d, i, j, key) /\ ~Has(d, j, i, key)
            /\ ~contains_undir_ijk(d, i, j, key) /\ ~contains_undir_ijk(d, j, i, key)
            /\ ~contains_dir_ijk(d, i, j, key) /\ ~contains_dir_ijk(d, j, i, key)
            /\ ~contains_ijk(d, directed, i, j, key)
            /\ ~contains_ijk(d, directed, j, i, key)
            /\ get_ijk(d, no_relationship, i, j, key) = no_relationship
            /\ get_ijk(d, no_relationship, j, i, key) = no_relationship

\* C6 witness: a relationship between i and j under key, and another under
\* another key, of which set_undir with no_relationship removes the first.
C6_Witness ==
    \E i \in Verts, j \in Verts, key \in Keys, k \in Keys :
        /\ i # j /\ k # key
        /\ MirrorOnly(data, i, j, key)
        /\ Outward(data, j, i, key)
        /\ Has(data, i, j, k)
        /\ Has(set_undir_ijkx(data, directed, no_relationship, i, j, key,
                              no_relationship), i, j, k)

\* C7: clear(key) removes every entry labelled key, leaves every entry with
\* another label unchanged, and afterwards vertices() is exactly the set of
\* vertices that still have an entry under another label.
C7_KeyWideClear ==
    \A key \in Keys :
        LET d == clear_k(data, key)
        IN  /\ \A i \in Verts, j \in Verts : ~Has(d, i, j, key)
            /\ \A i \in Verts, j \in Verts, k \in Keys \ {key} :
                   /\ Has(d, i, j, k) <=> Has(data, i, j, k)
                   /\ Has(data, i, j, k) => d[i][j][k] = data[i][j][k]
            /\ vertices(d) =
                   {v \in Verts : \E j \in Verts, k \in Keys \ {key} : Has(data, v, j, k)}

\* C7 witness: a vertex whose only entries are labelled key beside a vertex
\* with an entry under another label.
C7_Witness ==
    \E key \in Keys, u \in Verts, v \in Verts :
        /\ u \in vertices(data) /\ v \in vertices(data)
        /\ keys_i(data, u) = {key}
        /\ keys_i(data, v) = Keys
        /\ vertices(clear_k(data, key)) = {v}

\* The result the queries give for what is absent.
SetQueries == {"nbrs", "nbrs_to", "nbrs_from", "keys"}
BoolQueries == {"contains", "contains_dir", "contains_undir"}

AbsentResult(r) ==
    /\ ~r.val.fault
    /\ r.op \in SetQueries => r.val.value = {}
    /\ r.op \in BoolQueries => r.val.value = FALSE
    /\ r.op = "get" => r.val.value = no_relationship

\* The call was a query on a vertex that is not in vertices().
OnAbsentVertex(r) ==
    /\ r.op \in SetQueries \cup BoolQueries \cup {"get"}
    /\ Len(r.args) >= 1
    /\ r.args[1] \notin vertices(data)

\* C8: every query on a vertex that is not in vertices() completes without
\* a fault and returns the absent result: the empty set for keys(i),
\* keys(i, j) and the nbrs family, false for the contains family,
\* no_relationship for get.
C8_AbsentVertexQueries == OnAbsentVertex(ret) => AbsentResult(ret)

\* The same for every query but keys(i).
C8_ExceptKeysOfVertex ==
    (OnAbsentVertex(ret) /\ ~(ret.op = "keys" /\ Len(ret.args) = 1))
        => AbsentResult(ret)

\* C9: after clear(i) vertex i is not in vertices(), no entry (i, j, key) or
\* (j, i, key) exists, and every entry whose source and target both differ
\* from i is unchanged.
C9_ClearVertex ==
    \A i \in Verts :
        LET d == clear_i(data, i)
        IN  /\ i \notin vertices(d)
            /\ \A j \in Verts, key \in Keys : ~Has(d, i, j, key) /\ ~Has(d, j, i, key)
            /\ \A a \in Verts \ {i}, b \in Verts \ {i}, key \in Keys :
                   /\ Has(d, a, b, key) <=> Has(data, a, b, key)
                   /\ Has(data, a, b, key) => d[a][b][key] = data[a][b][key]
            /\ vertices(d) \subseteq vertices(data)

\* C9 witness: vertex i in a two-way directed pair with j (the j-to-i
\* relationship outward and set on its own), j having a relationship that
\* does not touch i and that clear(i) leaves.
C9_Witness ==
    \E i \in Verts, j \in Verts, key \in Keys, k \in Keys :
        /\ i # j
        /\ Outward(data, i, j, key)
        /\ Outward(data, j, i, key)
        /\ data[i][j][key].second # data[j][i][key].second
        /\ Has(data, j, j, k)
        /\ vertices(clear_i(data, i)) = {j}

\* C10: a vertex is in vertices() iff some entry has it as its source, iff
\* some entry has it as its target, and size() is the number of such
\* vertices.
C10_VerticesAreEndpoints ==
    /\ \A v \in Verts \cup vertices(data) :
           /\ v \in vertices(data) <=>
                  \E j \in Verts, key \in Keys : Has(data, v, j, key)
           /\ v \in vertices(data) <=>
                  \E j \in Verts, key \in Keys : Has(data, j, v, key)
    /\ size(data) =
           Cardinality({v \in Verts : \E j \in Verts, key \in Keys : Has(data, j, v, key)})

\* C10 witness: a vertex that is only the target of directed relationships
\* and is counted.
C10_Witness ==
    \E v \in Verts, i \in Verts :
        /\ i # v
        /\ \E key \in Keys : Outward(data, i, v, key)
        /\ \A j \in Verts, key \in Keys : ~Outward(data, v, j, key)
        /\ v \in vertices(data)
        /\ size(data) = 2

\* What C11 says of set_dir(i, j, key, v) followed by clear_dir(i, j, key).
C11_Post(i, j, key, v) ==
    clear_dir_ijk(set_dir_ijkx(data, directed, no_relationship, i, j, key, v),
                  i, j, key) = data

\* C11: where neither (i, j, key) nor (j, i, key) has an entry, for any i and
\* j, equal or not, and any v that differs from no_relationship,
\* set_dir(i, j, key, v) followed by clear_dir(i, j, key) restores the table
\* exactly.
C11_SetDirClearDirRestores ==
    \A i \in Verts, j \in Verts, key \in Keys, v \in Values :
        (v # no_relationship /\ ~Has(data, i, j, key) /\ ~Has(data, j, i, key))
            => C11_Post(i, j, key, v)

\* The part of C11 with i # j.
C11_DistinctPair ==
    \A i \in Verts, j \in Verts, key \in Keys, v \in Values :
        (i # j /\ v # no_relationship
             /\ ~Has(data, i, j, key) /\ ~Has(data, j, i, key))
            => C11_Post(i, j, key, v)

\* What C12 says of set_dir(i, j, key, v) about the entry at (j, i, key).
C12_Post(i, j, key, v) ==
    LET d == set_dir_ijkx(data, directed, no_relationship, i, j, key, v)
    IN  /\ Has(d, j, i, key)
        /\ d[j][i][key] = data[j][i][key]
        /\ get_ijk(d, no_relationship, j, i, key)
               = get_ijk(data, no_relationship, j, i, key)
        /\ contains_dir_ijk(d, j, i, key) = contains_dir_ijk(data, j, i, key)

\* C12 as stated: where the entry at (j, i, key) is outward, under either
\* value of directed, set_dir(i, j, key, v) with v different from
\* no_relationship leaves that entry's flag and magnitude, get(j, i, key) and
\* contains_dir(j, i, key) as they were.
C12_AsStated ==
    \A i \in Verts, j \in Verts, key \in Keys, v \in Values :
        (v # no_relationship /\ Outward(data, j, i, key)) => C12_Post(i, j, key, v)

\* C12 amended: the same for i # j.
C12_SetDirKeepsOpposite ==
    \A i \in Verts, j \in Verts, key \in Keys, v \in Values :
        (i # j /\ v # no_relationship /\ Outward(data, j, i, key))
            => C12_Post(i, j, key, v)

\* C12 witness: under directed = false, set_dir(i, j, key, v) with a stored
\* v over a one-way relationship from j to i of another magnitude.
C12_Witness ==
    \E i \in Verts, j \in Verts, key \in Keys, v \in Values :
        /\ i # j
        /\ ~directed
        /\ ~is_no_relationship(no_relationship, v)
        /\ Outward(data, j, i, key)
        /\ MirrorOnly(data, i, j, key)
        /\ data[j][i][key].second # v
        /\ Outward(set_dir_ijkx(data, directed, no_relationship, i, j, key, v),
                   i, j, key)
        /\ C12_Post(i, j, key, v)

\* C13: where (i, j, key) is absent or mirror-only, clear_dir(i, j, key)
\* leaves the whole table unchanged; where no key at (i, j) is outward,
\* clear_dir(i, j) leaves the whole table unchanged.
C13_ClearDirNothingToClear ==
    \A i \in Verts, j \in Verts :
        /\ \A key \in Keys :
               ~Outward(data, i, j, key) => clear_dir_ijk(data, i, j, key) = data
        /\ (\A key \in Keys : ~Outward(data, i, j, key))
               => clear_dir_ij(data, directed, i, j) = data

\* C13 witness: under directed = false, a pair (i, j) with an entry at every
\* key, all of them mirror-only, on which both clear_dir calls run.
C13_Witness ==
    \E i \in Verts, j \in Verts :
        /\ i # j
        /\ ~directed
        /\ \A key \in Keys : MirrorOnly(data, i, j, key)
        /\ \A key \in Keys : clear_dir_ijk(data, i, j, key) = data
        /\ clear_dir_ij(data, directed, i, j) = data

\* What C14 says of a mirror-only entry at (i, j, key).
C14_Backed(i, j, key) ==
    MirrorOnly(data, i, j, key) =>
        /\ Outward(data, j, i, key)
        /\ data[j][i][key].second = data[i][j][key].second
        /\ get_ijk(data, no_relationship, i, j, key)
               = -get_ijk(data, no_relationship, j, i, key)

\* C14: for all i, j, equal or not, and every key, a mirror-only entry at
\* (i, j, key) comes with an outward entry at (j, i, key) of the same
\* magnitude, so that get(i, j, key) = -get(j, i, key).
C14_MirrorOnlyIsBacked ==
    \A i \in Verts, j \in Verts, key \in Keys : C14_Backed(i, j, key)

\* The part of C14 with i # j.
C14_DistinctPair ==
    \A i \in Verts, j \in Verts, key \in Keys : i # j => C14_Backed(i, j, key)

\* Every order in which the keys of the set S can be taken.
Orders(S) ==
    {s \in [1..Cardinality(S) -> S] : \A m, n \in DOMAIN s : m # n => s[m] # s[n]}

\* clear_dir(i, j, s[n]), clear_dir(i, j, s[n + 1]), ... applied in turn.
RECURSIVE clear_dir_ijk_each(_, _, _, _, _)
clear_dir_ijk_each(d, i, j, s, n) ==
    IF n > Len(s) THEN d
    ELSE clear_dir_ijk_each(clear_dir_ijk(d, i, j, s[n]), i, j, s, n + 1)

\* C15: under either value of directed, clear_dir(i, j) leaves the table
\* that clear_dir(i, j, k) applied once for every k of keys(i, j), in any
\* order, leaves.
C15_UnkeyedIsPerKey ==
    \A i \in Verts, j \in Verts :
        \A s \in Orders(keys_ij(data, i, j)) :
            clear_dir_ij(data, directed, i, j) = clear_dir_ijk_each(data, i, j, s, 1)

\* C15 witness: a pair (i, j) with a one-way relationship at one key and a
\* two-way directed pair at another, which clear_dir(i, j) removes and
\* demotes.
C15_Witness ==
    \E i \in Verts, j \in Verts, k1 \in Keys, k2 \in Keys :
        /\ i # j
        /\ k1 # k2
        /\ Outward(data, i, j, k1) /\ MirrorOnly(data, j, i, k1)
        /\ Outward(data, i, j, k2) /\ Outward(data, j, i, k2)
        /\ data[i][j][k2].second # data[j][i][k2].second
        /\ LET d == clear_dir_ij(data, directed, i, j)
           IN  /\ ~Has(d, i, j, k1)
               /\ MirrorOnly(d, i, j, k2)
               /\ \A s \in Orders(keys_ij(data, i, j)) :
                      clear_dir_ijk_each(data, i, j, s, 1) = d

\* The step is a directed set on (i, j, key) that stores a value.
C16_DirectedSet(i, j, key) ==
    \E v \in Values :
        /\ ~is_no_relationship(no_relationship, v)
        /\ data' = set_ijkux(data, directed, no_relationship, i, j, key, FALSE, v)

\* The step is a directed clear of the direction i to j at key: clear_dir
\* keyed, unkeyed or per-vertex, or a directed set with the sentinel value.
C16_DirectedClear(i, j, key) ==
    \/ data' = clear_ijku(data, i, j, key, FALSE)
    \/ data' = clear_dir_ij(data, directed, i, j)
    \/ data' = clear_dir_ik(data, i, key)
    \/ \E v \in Values :
           /\ is_no_relationship(no_relationship, v)
           /\ data' = set_ijkux(data, directed, no_relationship, i, j, key, FALSE, v)

\* The triples that are mirror-only in e and are not in d.
C16_NewMirrorOnly(d, e) ==
    {t \in Verts \X Verts \X Keys :
        MirrorOnly(e, t[1], t[2], t[3]) /\ ~MirrorOnly(d, t[1], t[2], t[3])}

\* No undirected set or clear, and no clear of a vertex, of a key or of the
\* whole table, called in this state, makes a triple mirror-only.
C16_UndirectedNeverDemotes ==
    /\ \A i \in Verts, j \in Verts, key \in Keys :
           /\ \A v \in Values :
                  C16_NewMirrorOnly(data, set_ijkux(data, directed, no_relationship,
                                                    i, j, key, TRUE, v)) = {}
           /\ C16_NewMirrorOnly(data, clear_ijku(data, i, j, key, TRUE)) = {}
           /\ C16_NewMirrorOnly(data, clear_undir_ij(data, i, j)) = {}
           /\ C16_NewMirrorOnly(data, clear_undir_ik(data, i, key)) = {}
           /\ C16_NewMirrorOnly(data, clear_i(data, i)) = {}
           /\ C16_NewMirrorOnly(data, clear_k(data, key)) = {}
    /\ C16_NewMirrorOnly(data, clear_all(data)) = {}

\* Every step that makes (i, j, key) mirror-only is (a) a directed set on
\* (j, i, key) taken while (i, j, key) is absent, which leaves (j, i, key)
\* outward, or (b) a directed clear of i to j taken while (i, j, key) and
\* (j, i, key) are both outward.
C16_Step ==
    \A i \in Verts, j \in Verts, key \in Keys :
        (~MirrorOnly(data, i, j, key) /\ MirrorOnly(data', i, j, key)) =>
            \/ /\ ~Has(data, i, j, key)
               /\ C16_DirectedSet(j, i, key)
               /\ Outward(data', j, i, key)
            \/ /\ Outward(data, i, j, key)
               /\ Outward(data, j, i, key)
               /\ C16_DirectedClear(i, j, key)

\* C16: a triple becomes mirror-only only (a) from absent, by a directed set
\* on the opposite triple that makes that triple outward, or (b) from
\* outward, by a directed clear of its direction taken while the opposite
\* triple is outward; no undirected operation makes a triple mirror-only.
C16_MirrorOnlyOrigins == [][C16_Step]_vars /\ []C16_UndirectedNeverDemotes

\* C16 witness: a table where a directed set on (j, i, k1) creates (i, j, k1)
\* mirror-only and where clear_dir(i, k2) demotes (i, j, k2) of a two-way
\* directed pair.
C16_Witness ==
    \E i \in Verts, j \in Verts, k1 \in Keys, k2 \in Keys, v \in Values :
        /\ i # j
        /\ ~Has(data, i, j, k1)
        /\ MirrorOnly(set_ijkux(data, directed, no_relationship, j, i, k1, FALSE, v),
                      i, j, k1)
        /\ Outward(data, i, j, k2)
        /\ Outward(data, j, i, k2)
        /\ MirrorOnly(clear_dir_ik(data, i, k2), i, j, k2)

\* Table e differs from table d in nothing but the entries at (i, j, key)
\* and (j, i, key), and no vertex other than i and j is in vertices() of one
\* and not of the other.
C17_OnlyTouches(d, e, i, j, key) ==
    /\ \A a \in Verts, b \in Verts, k \in Keys :
           (<<a, b, k>> # <<i, j, key>> /\ <<a, b, k>> # <<j, i, key>>) =>
               /\ Has(e, a, b, k) <=> Has(d, a, b, k)
               /\ Has(d, a, b, k) => e[a][b][k] = d[a][b][k]
    /\ \A u \in (Verts \cup vertices(d) \cup vertices(e)) \ {i, j} :
           u \in vertices(e) <=> u \in vertices(d)

\* C17: set(i, j, key, undir, v) and clear(i, j, key, undir) leave every
\* entry other than (i, j, key) and (j, i, key) unchanged in presence, flag
\* and magnitude, and no vertex other than i and j enters or leaves
\* vertices().
C17_KeyedPairLocality ==
    \A i \in Verts, j \in Verts, key \in Keys, undir \in BOOLEAN :
        /\ C17_OnlyTouches(data, clear_ijku(data, i, j, key, undir), i, j, key)
        /\ \A v \in Values :
               C17_OnlyTouches(data,
                               set_ijkux(data, directed, no_relationship,
                                         i, j, key, undir, v),
                               i, j, key)

\* C17 witness: clear(i, i, k1, true) on a table that also holds (i, i, k2)
\* and an entry of another vertex u, both of which stay as they are.
C17_Witness ==
    \E i \in Verts, u \in Verts, k1 \in Keys, k2 \in Keys :
        /\ i # u
        /\ k1 # k2
        /\ Has(data, i, i, k1)
        /\ Has(data, i, i, k2)
        /\ Has(data, u, u, k1)
        /\ LET d == clear_ijku(data, i, i, k1, TRUE)
           IN  /\ ~Has(d, i, i, k1)
               /\ Has(d, i, i, k2)
               /\ d[i][i][k2] = data[i][i][k2]
               /\ u \in vertices(d)
               /\ C17_OnlyTouches(data, d, i, i, k1)

\* What C18 says of the pair i, j.
C18_Dual(i, j) ==
    /\ \A key \in Keys :
           j \in nbrs_from_ik(data, i, key) <=> i \in nbrs_to_ik(data, j, key)
    /\ j \in nbrs_from_i(data, i) <=> i \in nbrs_to_i(data, j)

\* C18: for all i and j, equal or not, j is in nbrs_from(i, key) exactly
\* when i is in nbrs_to(j, key), for every key, and j is in nbrs_from(i)
\* exactly when i is in nbrs_to(j).
C18_NbrsDuality ==
    \A i \in Verts, j \in Verts : C18_Dual(i, j)

\* The part of C18 with i # j.
C18_DistinctPair ==
    \A i \in Verts, j \in Verts : i # j => C18_Dual(i, j)

\* The calls that return a copy of the object.
CopyOps == {"Graph", "operator=", "operator= this"}

\* Object b holds the table and the directed flag of the object copied, and
\* answers alike every query that does not read no_relationship.
C19_SameTable(b) ==
    /\ b.data = data
    /\ b.directed = directed
    /\ size(b.data) = size(data)
    /\ vertices(b.data) = vertices(data)
    /\ keys_all(b.data) = keys_all(data)
    /\ \A i \in Verts :
           /\ contains_i(b.data, b.directed, i) = contains_i(data, directed, i)
           /\ nbrs_i(b.data, i) = nbrs_i(data, i)
           /\ nbrs_to_i(b.data, i) = nbrs_to_i(data, i)
           /\ nbrs_from_i(b.data, i) = nbrs_from_i(data, i)
    /\ \A i \in Verts, j \in Verts :
           /\ contains_ij(b.data, b.directed, i, j) = contains_ij(data, directed, i, j)
           /\ keys_ij(b.data, i, j) = keys_ij(data, i, j)
    /\ \A i \in Verts, j \in Verts, key \in Keys :
           /\ contains_ijk(b.data, b.directed, i, j, key)
                  = contains_ijk(data, directed, i, j, key)
           /\ Has(data, i, j, key) =>
                  get_ijk(b.data, b.no_relationship, i, j, key)
                      = get_ijk(data, no_relationship, i, j, key)

\* Object b holds the no_relationship of the object copied, and get on b
\* returns what get on the object copied returns, absent entries included.
C19_SameSentinel(b) ==
    /\ b.no_relationship = no_relationship
    /\ \A i \in Verts, j \in Verts, key \in Keys :
           get_ijk(b.data, b.no_relationship, i, j, key)
               = get_ijk(data, no_relationship, i, j, key)

\* C19: right after Graph b(a), or b = a on a b built with any
\* configuration, b answers every query as a does, get on an absent entry
\* included: the table and both configuration fields of b equal those of a.
C19_CopyAnswersAlike ==
    ret.op \in CopyOps =>
        C19_SameTable(ret.val.value) /\ C19_SameSentinel(ret.val.value)

\* The part of C19 that does not read no_relationship.
C19_CopyOfTable ==
    ret.op \in CopyOps => C19_SameTable(ret.val.value)

=============================================================================
